---- MODULE Spec2Model ----
(***************************************************************************)
(* A model of the Fornjot kernel's partial half-edge builder, the          *)
(* half-edge and face transforms, and the face/face intersection.          *)
(*                                                                         *)
(* Conventions.  Option<T> is a sequence of length 0 (None) or 1 (Some).   *)
(* MaybePartial<T> is a record with the single field "full" or "partial".  *)
(* Scalars are fixed-point integers with three decimals (1.0 = 1000).      *)
(* A Handle<GlobalCurve> is an integer identity; a Handle<Surface> is a    *)
(* record of an identity and the plane it holds.                           *)
(***************************************************************************)
EXTENDS Integers, Sequences, FiniteSets, TLC

VARIABLES
    ff_faces,     \* the two faces handed to FaceFaceIntersection::compute
    ff_called,    \* has compute returned?
    ff_result,    \* what compute returned (None until it has)
    pc,           \* where the building program is: "global_edge", "half_edge",
                  \* "built" or "panicked"
    ge,           \* the PartialGlobalEdge under construction
    ge_built,     \* the GlobalEdge PartialGlobalEdge::build returned, if any
    partial,      \* the PartialHalfEdge under construction
    call,         \* the last builder method called and its argument
    builds,       \* one record per PartialHalfEdge::build that returned
    objects,      \* the object store
    tr_kind,      \* what the transforming program transforms: "half_edge" or
                  \* "face"
    tr_in,        \* the object handed to transform
    tr_transform, \* the transform applied
    tr_fail,      \* the step of the transform the store rejects, if any
    tr_out,       \* what transform returned (None until it has)
    tr_objects    \* the object store of the transforming program

ff_vars == <<ff_faces, ff_called, ff_result>>
builder_vars == <<pc, ge, ge_built, partial, call, builds, objects>>
tr_vars == <<tr_kind, tr_in, tr_transform, tr_fail, tr_out, tr_objects>>
vars == <<ff_vars, builder_vars, tr_vars>>

----------------------------------------------------------------------------
(* Option and MaybePartial *)

None == <<>>
Some(v) == <<v>>
IsSome(o) == o # <<>>
Unwrap(o) == o[1]

Full(v) == [full |-> v]
Partial(p) == [partial |-> p]
IsFull(m) == DOMAIN m = {"full"}
IsPartial(m) == DOMAIN m = {"partial"}

Min(a, b) == IF a <= b THEN a ELSE b
Max(a, b) == IF a >= b THEN a ELSE b

----------------------------------------------------------------------------
(* Bounds *)

\* Face corners of the intersection model lie at the CoordSpan + 1 whole
\* coordinates from -1.0 upwards.
CoordSpan == 3

\* Circle radii are the whole numbers 1.0 .. MaxRadius.
MaxRadius == 1

\* The program builds at most MaxBuilds half-edges in one store.
MaxBuilds == 2

\* A face has at most MaxInteriors interior cycles.
MaxInteriors == 2

----------------------------------------------------------------------------
(* Geometry shared by all parts of the model *)

\* Scalar::ZERO, 1.0 and Scalar::TAU in fixed point.
ZERO == 0
ONE == 1000
TAU == 6283

\* The three coordinate planes; u and v are the plane's two local axes.
Planes == {"xy", "xz", "yz"}
PlaneAxes(p) == IF p = "xy" THEN <<"x", "y">>
                ELSE IF p = "xz" THEN <<"x", "z">> ELSE <<"y", "z">>

Surface(id, plane) == [id |-> id, plane |-> plane]

Line(p0, p1) == [kind |-> "Line", a |-> p0, b |-> p1]

----------------------------------------------------------------------------
(* Objects and their partial forms *)

Circle(radius) == [kind |-> "Circle", radius |-> radius]

\* cos and sin at the curve coordinates the model uses (0, 1.0 and TAU).
Cos(t) == IF t = ONE THEN 540 ELSE ONE
Sin(t) == IF t = ONE THEN 841 ELSE ZERO

\* GlobalPath / SurfacePath::point_from_path_coords
point_from_path_coords(path, t) ==
    IF path.kind = "Line"
    THEN <<path.a[1] + (t * (path.b[1] - path.a[1])) \div ONE,
           path.a[2] + (t * (path.b[2] - path.a[2])) \div ONE>>
    ELSE <<(path.radius * Cos(t)) \div ONE, (path.radius * Sin(t)) \div ONE>>

\* Surface::point_from_surface_coords
point_from_surface_coords(surface, p) ==
    IF surface.plane = "xy" THEN <<p[1], p[2], ZERO>>
    ELSE IF surface.plane = "xz" THEN <<p[1], ZERO, p[2]>>
    ELSE <<ZERO, p[1], p[2]>>

\* Objects::new, and the insertions into the store.  A new GlobalCurve gets
\* the next identity; the other objects are kept by value.
EmptyObjects ==
    [surfaces |-> {}, global_curves |-> {}, curves |-> {},
     global_vertices |-> {}]
NewGlobalCurve(objs) == Cardinality(objs.global_curves) + 1
InsertGlobalCurve(objs) ==
    [objs EXCEPT !.global_curves = @ \cup {NewGlobalCurve(objs)}]
InsertCurve(objs, curve) == [objs EXCEPT !.curves = @ \cup {curve}]
InsertGlobalVertex(objs, v) == [objs EXCEPT !.global_vertices = @ \cup {v}]

\* The outcome of a step that may panic: the value it made and the store
\* as it left it.
Ok(v, objs) == [ok |-> TRUE, v |-> Some(v), objects |-> objs]
Panic(objs) == [ok |-> FALSE, v |-> None, objects |-> objs]

\* `let v = ..; f(v)`: the value is computed once and then used.
Let(v, f(_)) == CHOOSE y \in {f(x) : x \in {v}} : TRUE

\* MaybePartial::update_partial: applies f to a partial object and leaves a
\* full one as it is.
update_partial(m, f(_)) == IF IsPartial(m) THEN Partial(f(m.partial)) ELSE m

(* Curve *)

DefaultPartialCurve == [path |-> None, surface |-> None, global_form |-> None]

PartialCurve_with_surface(self, surface) ==
    IF IsSome(surface) THEN [self EXCEPT !.surface = surface] ELSE self

PartialCurve_as_circle_from_radius(self, radius) ==
    [self EXCEPT !.path = Some(Circle(radius))]

PartialCurve_as_line_from_points(self, points) ==
    [self EXCEPT !.path = Some(Line(points[1], points[2]))]

\* PartialCurve::build: needs a path and a surface; makes a new GlobalCurve
\* when none is given.
PartialCurve_build(self, objs) ==
    IF self.path = None \/ self.surface = None THEN Panic(objs)
    ELSE LET o1 == IF self.global_form = None THEN InsertGlobalCurve(objs)
                   ELSE objs
             global_form == IF self.global_form = None
                            THEN NewGlobalCurve(objs)
                            ELSE Unwrap(self.global_form)
             curve == [path |-> Unwrap(self.path),
                       surface |-> Unwrap(self.surface),
                       global_form |-> global_form]
         IN  Ok(curve, InsertCurve(o1, curve))

\* MaybePartial<Curve>::into_full
Curve_into_full(m, objs) ==
    IF IsFull(m) THEN Ok(m.full, objs) ELSE PartialCurve_build(m.partial, objs)

\* MaybePartial<Curve>::global_form
Curve_global_form(m) ==
    IF IsFull(m) THEN Some(m.full.global_form) ELSE m.partial.global_form

(* GlobalVertex *)

PartialGlobalVertex_from_surface_and_position(surface, position) ==
    [position |-> Some(point_from_surface_coords(surface, position))]

\* PartialGlobalVertex::from_curve_and_position: the position is known as
\* soon as the curve has a path and a surface.
PartialGlobalVertex_from_curve_and_position(curve, position) ==
    IF IsSome(curve.path) /\ IsSome(curve.surface)
    THEN PartialGlobalVertex_from_surface_and_position(
            Unwrap(curve.surface),
            point_from_path_coords(Unwrap(curve.path), position))
    ELSE [position |-> None]

PartialGlobalVertex_build(self, objs) ==
    IF self.position = None THEN Panic(objs)
    ELSE LET v == [position |-> Unwrap(self.position)]
         IN  Ok(v, InsertGlobalVertex(objs, v))

GlobalVertex_into_full(m, objs) ==
    IF IsFull(m) THEN Ok(m.full, objs)
    ELSE PartialGlobalVertex_build(m.partial, objs)

(* SurfaceVertex *)

DefaultPartialSurfaceVertex ==
    [position |-> None, surface |-> None, global_form |-> None]

PartialSurfaceVertex_with_position(self, position) ==
    IF IsSome(position) THEN [self EXCEPT !.position = position] ELSE self

PartialSurfaceVertex_with_surface(self, surface) ==
    IF IsSome(surface) THEN [self EXCEPT !.surface = surface] ELSE self

PartialSurfaceVertex_with_global_form(self, global_form) ==
    IF IsSome(global_form) THEN [self EXCEPT !.global_form = global_form]
    ELSE self

\* PartialSurfaceVertex::build: needs a position and a surface; derives the
\* GlobalVertex from them when none is given.
PartialSurfaceVertex_build(self, objs) ==
    IF self.position = None \/ self.surface = None THEN Panic(objs)
    ELSE Let(GlobalVertex_into_full(
                IF IsSome(self.global_form) THEN Unwrap(self.global_form)
                ELSE Partial(PartialGlobalVertex_from_surface_and_position(
                        Unwrap(self.surface), Unwrap(self.position))),
                objs),
             LAMBDA g :
                IF ~g.ok THEN Panic(g.objects)
                ELSE Ok([position |-> Unwrap(self.position),
                         surface |-> Unwrap(self.surface),
                         global_form |-> Unwrap(g.v)], g.objects))

SurfaceVertex_into_full(m, objs) ==
    IF IsFull(m) THEN Ok(m.full, objs)
    ELSE PartialSurfaceVertex_build(m.partial, objs)

\* MaybePartial<SurfaceVertex>::surface and ::position
SurfaceVertex_surface(m) ==
    IF IsFull(m) THEN Some(m.full.surface) ELSE m.partial.surface
SurfaceVertex_position(m) ==
    IF IsFull(m) THEN Some(m.full.position) ELSE m.partial.position

(* Vertex *)

DefaultPartialVertex ==
    [position |-> None, curve |-> None, surface_form |-> None,
     global_form |-> None]

PartialVertex_with_position(self, position) ==
    IF IsSome(position) THEN [self EXCEPT !.position = position] ELSE self

PartialVertex_with_curve(self, curve) ==
    IF IsSome(curve) THEN [self EXCEPT !.curve = curve] ELSE self

PartialVertex_with_surface_form(self, surface_form) ==
    IF IsSome(surface_form) THEN [self EXCEPT !.surface_form = surface_form]
    ELSE self

PartialVertex_with_global_form(self, global_form) ==
    IF IsSome(global_form) THEN [self EXCEPT !.global_form = global_form]
    ELSE self

\* PartialVertex::build: needs a position and a curve; a partial or absent
\* surface form takes its surface from the curve, its position from the
\* curve's path when it has none, and the vertex's global form when given.
PartialVertex_build(self, objs) ==
    IF self.position = None \/ self.curve = None THEN Panic(objs)
    ELSE Let(Curve_into_full(Unwrap(self.curve), objs), LAMBDA c :
        IF ~c.ok THEN Panic(c.objects)
        ELSE
        LET curve == Unwrap(c.v)
            given == IF IsSome(self.surface_form)
                     THEN Unwrap(self.surface_form)
                     ELSE Partial(DefaultPartialSurfaceVertex)
            infer(sv) ==
                PartialSurfaceVertex_with_global_form(
                    PartialSurfaceVertex_with_surface(
                        PartialSurfaceVertex_with_position(sv,
                            IF IsSome(sv.position) THEN sv.position
                            ELSE Some(point_from_path_coords(
                                    curve.path, Unwrap(self.position)))),
                        Some(curve.surface)),
                    self.global_form)
        IN  Let(SurfaceVertex_into_full(update_partial(given, infer),
                                        c.objects),
                LAMBDA s :
                    IF ~s.ok THEN Panic(s.objects)
                    ELSE Ok([position |-> Unwrap(self.position),
                             curve |-> curve,
                             surface_form |-> Unwrap(s.v),
                             global_form |-> Unwrap(s.v).global_form],
                            s.objects)))

Vertex_into_full(m, objs) ==
    Let(m, LAMBDA v : IF IsFull(v) THEN Ok(v.full, objs)
                      ELSE PartialVertex_build(v.partial, objs))

\* MaybePartial<Vertex>::surface_form
Vertex_surface_form(m) ==
    IF IsFull(m) THEN Some(Full(m.full.surface_form))
    ELSE m.partial.surface_form

(* GlobalEdge and HalfEdge *)

\* The order of GlobalVertex values: by position, lexicographically.
RECURSIVE SeqLess(_, _)
SeqLess(a, b) ==
    /\ a # <<>>
    /\ \/ a[1] < b[1]
       \/ a[1] = b[1] /\ SeqLess(Tail(a), Tail(b))
GlobalVertex_lt(a, b) == SeqLess(a.position, b.position)

\* VerticesInNormalizedOrder::new
VerticesInNormalizedOrder_new(vertices) ==
    IF GlobalVertex_lt(vertices[1], vertices[2]) THEN vertices
    ELSE <<vertices[2], vertices[1]>>

\* GlobalEdge::new
GlobalEdge_new(curve, vertices) ==
    [curve |-> curve, vertices |-> VerticesInNormalizedOrder_new(vertices)]

\* MaybePartial<GlobalEdge>::curve
GlobalEdge_curve(m) == IF IsFull(m) THEN Some(m.full.curve) ELSE m.partial.curve

\* HalfEdge::new: the two vertices bound the edge on one curve.
HalfEdge_new(vertices, global_form, objs) ==
    IF vertices[1].curve # vertices[2].curve THEN Panic(objs)
    ELSE Ok([vertices |-> vertices, global_form |-> global_form], objs)

\* HalfEdge::curve
HalfEdge_curve(half_edge) == half_edge.vertices[1].curve

----------------------------------------------------------------------------
(* PartialGlobalEdge *)

DefaultPartialGlobalEdge == [curve |-> None, vertices |-> None]

PartialGlobalEdge_with_curve(self, curve) ==
    IF IsSome(curve) THEN [self EXCEPT !.curve = Some(Unwrap(curve))] ELSE self

PartialGlobalEdge_with_vertices(self, vertices) ==
    IF IsSome(vertices) THEN [self EXCEPT !.vertices = Some(Unwrap(vertices))]
    ELSE self

\* A slip in from_curve_and_vertices: the first vertex is taken twice.
PartialGlobalEdge_from_curve_and_first_vertex(self, curve, vertices) ==
    PartialGlobalEdge_with_vertices(
        PartialGlobalEdge_with_curve(self, Some(curve.global_form)),
        Some(<<vertices[1].global_form, vertices[1].global_form>>))

PartialGlobalEdge_from_curve_and_vertices(self, curve, vertices) ==
    PartialGlobalEdge_with_vertices(
        PartialGlobalEdge_with_curve(self, Some(curve.global_form)),
        Some(<<vertices[1].global_form, vertices[2].global_form>>))

\* A slip in build: the vertices are stored as they were given.
PartialGlobalEdge_build_unordered(self, objs) ==
    IF self.curve = None \/ self.vertices = None THEN Panic(objs)
    ELSE Ok([curve |-> Unwrap(self.curve),
             vertices |-> Unwrap(self.vertices)], objs)

PartialGlobalEdge_build(self, objs) ==
    IF self.curve = None THEN Panic(objs)
    ELSE IF self.vertices = None THEN Panic(objs)
    ELSE Ok(GlobalEdge_new(Unwrap(self.curve), Unwrap(self.vertices)), objs)

\* impl From<&GlobalEdge> for PartialGlobalEdge
PartialGlobalEdge_from(global_edge) ==
    [curve |-> Some(global_edge.curve), vertices |-> Some(global_edge.vertices)]

\* MaybePartial<GlobalEdge>::into_full
GlobalEdge_into_full(m, objs) ==
    IF IsFull(m) THEN Ok(m.full, objs)
    ELSE PartialGlobalEdge_build(m.partial, objs)

----------------------------------------------------------------------------
(* PartialHalfEdge *)

DefaultPartialHalfEdge ==
    [surface |-> None, curve |-> None, vertices |-> None, global_form |-> None]

PartialHalfEdge_with_surface(self, surface) ==
    IF IsSome(surface) THEN [self EXCEPT !.surface = Some(Unwrap(surface))]
    ELSE self

\* A slip in with_curve: the field is overwritten with whatever is passed.
PartialHalfEdge_with_curve_overwrite(self, curve) ==
    [self EXCEPT !.curve = curve]

PartialHalfEdge_with_curve(self, curve) ==
    IF IsSome(curve) THEN [self EXCEPT !.curve = Some(Unwrap(curve))] ELSE self

PartialHalfEdge_with_vertices(self, vertices) ==
    IF IsSome(vertices) THEN [self EXCEPT !.vertices = Some(Unwrap(vertices))]
    ELSE self

PartialHalfEdge_with_global_form(self, global_form) ==
    IF IsSome(global_form)
    THEN [self EXCEPT !.global_form = Some(Unwrap(global_form))]
    ELSE self

\* A slip in as_circle_from_radius: the new curve is given to the vertices
\* but not stored in the half-edge.
PartialHalfEdge_as_circle_from_radius_keeps_curve(self, radius) ==
    LET curve == PartialCurve_as_circle_from_radius(
                    PartialCurve_with_surface(DefaultPartialCurve,
                                              self.surface),
                    radius)
        global_vertex ==
            PartialGlobalVertex_from_curve_and_position(curve, ZERO)
        vertex(point_curve) ==
            Partial(PartialVertex_with_global_form(
                PartialVertex_with_curve(
                    PartialVertex_with_position(DefaultPartialVertex,
                                                Some(point_curve)),
                    Some(Partial(curve))),
                Some(Partial(global_vertex))))
    IN  [self EXCEPT !.vertices = Some(<<vertex(ZERO), vertex(TAU)>>)]

PartialHalfEdge_as_circle_from_radius(self, radius) ==
    LET curve == PartialCurve_as_circle_from_radius(
                    PartialCurve_with_surface(DefaultPartialCurve,
                                              self.surface),
                    radius)
        a_curve == ZERO
        b_curve == TAU
        global_vertex ==
            PartialGlobalVertex_from_curve_and_position(curve, a_curve)
        vertex(point_curve) ==
            Partial(PartialVertex_with_global_form(
                PartialVertex_with_curve(
                    PartialVertex_with_position(DefaultPartialVertex,
                                                Some(point_curve)),
                    Some(Partial(curve))),
                Some(Partial(global_vertex))))
    IN  [self EXCEPT !.curve = Some(Partial(curve)),
                     !.vertices = Some(<<vertex(a_curve), vertex(b_curve)>>)]

extract_global_curve_from_curve(self) ==
    IF self.curve = None THEN None ELSE Curve_global_form(Unwrap(self.curve))

extract_global_curve_from_global_form(self) ==
    IF self.global_form = None THEN None
    ELSE GlobalEdge_curve(Unwrap(self.global_form))

\* A slip in extract_global_curve: the global form is asked first.
extract_global_curve_global_form_first(self) ==
    IF IsSome(extract_global_curve_from_global_form(self))
    THEN extract_global_curve_from_global_form(self)
    ELSE extract_global_curve_from_curve(self)

extract_global_curve(self) ==
    IF IsSome(extract_global_curve_from_curve(self))
    THEN extract_global_curve_from_curve(self)
    ELSE extract_global_curve_from_global_form(self)

\* The first of the given options that is Some (Option::or_else).
FirstSome(options) ==
    IF \E i \in 1..Len(options) : IsSome(options[i])
    THEN options[CHOOSE i \in 1..Len(options) :
                    /\ IsSome(options[i])
                    /\ \A j \in 1..(i - 1) : options[j] = None]
    ELSE None

\* The outcome of a method that returns the partial or panics.
Done(v) == [ok |-> TRUE, v |-> Some(v)]
Abort == [ok |-> FALSE, v |-> None]

\* A slip in as_line_segment: the vertices get their coordinates but are
\* not pointed at the new curve.
as_line_segment_vertices_no_curve(from, to, curve) ==
    <<update_partial(from, LAMBDA vertex :
        PartialVertex_with_position(vertex, Some(ZERO))),
      update_partial(to, LAMBDA vertex :
        PartialVertex_with_position(vertex, Some(ONE)))>>

\* The vertices as_line_segment leaves: each one that is still partial is
\* put at 0 or 1 on the new curve.
as_line_segment_vertices(from, to, curve) ==
    <<update_partial(from, LAMBDA vertex :
        PartialVertex_with_curve(
            PartialVertex_with_position(vertex, Some(ZERO)),
            Some(Partial(curve)))),
      update_partial(to, LAMBDA vertex :
        PartialVertex_with_curve(
            PartialVertex_with_position(vertex, Some(ONE)),
            Some(Partial(curve))))>>

PartialHalfEdge_as_line_segment(self) ==
    IF self.vertices = None THEN Abort
    ELSE
    LET from == Unwrap(self.vertices)[1]
        to == Unwrap(self.vertices)[2]
    IN  IF Vertex_surface_form(from) = None \/ Vertex_surface_form(to) = None
        THEN Abort
        ELSE
        LET from_surface == Unwrap(Vertex_surface_form(from))
            to_surface == Unwrap(Vertex_surface_form(to))
            surface == FirstSome(<<self.surface,
                                   SurfaceVertex_surface(from_surface),
                                   SurfaceVertex_surface(to_surface)>>)
        IN  IF surface = None THEN Abort
            ELSE IF \/ SurfaceVertex_position(from_surface) = None
                    \/ SurfaceVertex_position(to_surface) = None
            THEN Abort
            ELSE
            LET points == <<Unwrap(SurfaceVertex_position(from_surface)),
                            Unwrap(SurfaceVertex_position(to_surface))>>
                curve == PartialCurve_as_line_from_points(
                            PartialCurve_with_surface(
                                [DefaultPartialCurve EXCEPT
                                    !.global_form = extract_global_curve(self)],
                                surface),
                            points)
                vertices == as_line_segment_vertices(from, to, curve)
            IN  Done([self EXCEPT !.curve = Some(Partial(curve)),
                                  !.vertices = Some(vertices)])

PartialHalfEdge_as_line_segment_from_points(self, points) ==
    LET surface == self.surface
        vertex(point) ==
            Partial(PartialVertex_with_surface_form(DefaultPartialVertex,
                Some(Partial(PartialSurfaceVertex_with_position(
                    PartialSurfaceVertex_with_surface(
                        DefaultPartialSurfaceVertex, surface),
                    Some(point))))))
    IN  PartialHalfEdge_as_line_segment(
            PartialHalfEdge_with_vertices(self,
                Some(<<vertex(points[1]), vertex(points[2])>>)))

\* The outcome of build: the half-edge, the store as build left it, and the
\* finalized curve once there is one.
Built(half_edge, curve, objs) ==
    [ok |-> TRUE, v |-> Some(half_edge), curve |-> Some(curve),
     objects |-> objs]
BuildPanic(curve, objs) ==
    [ok |-> FALSE, v |-> None, curve |-> curve, objects |-> objs]

PartialHalfEdge_build(self, objs) ==
    IF self.curve = None THEN BuildPanic(None, objs)
    ELSE
    LET surface == self.surface
        set_surface(curve) == PartialCurve_with_surface(curve, surface)
    IN  Let(Curve_into_full(update_partial(Unwrap(self.curve), set_surface),
                            objs),
        LAMBDA c :
        IF ~c.ok THEN BuildPanic(None, c.objects)
        ELSE IF self.vertices = None THEN BuildPanic(c.v, c.objects)
        ELSE
        LET curve == Unwrap(c.v)
            set_curve(vertex) == PartialVertex_with_curve(vertex,
                                                          Some(Full(curve)))
        IN  Let(Vertex_into_full(
                    update_partial(Unwrap(self.vertices)[1], set_curve),
                    c.objects),
            LAMBDA a :
            IF ~a.ok THEN BuildPanic(c.v, a.objects)
            ELSE
            Let(Vertex_into_full(
                    update_partial(Unwrap(self.vertices)[2], set_curve),
                    a.objects),
            LAMBDA b :
            IF ~b.ok THEN BuildPanic(c.v, b.objects)
            ELSE
            LET vertices == <<Unwrap(a.v), Unwrap(b.v)>>
            IN  Let(GlobalEdge_into_full(
                        IF IsSome(self.global_form)
                        THEN Unwrap(self.global_form)
                        ELSE Partial(PartialGlobalEdge_from_curve_and_vertices(
                                DefaultPartialGlobalEdge, curve, vertices)),
                        b.objects),
                LAMBDA g :
                IF ~g.ok THEN BuildPanic(c.v, g.objects)
                ELSE Let(HalfEdge_new(vertices, Unwrap(g.v), g.objects),
                         LAMBDA h :
                         IF ~h.ok THEN BuildPanic(c.v, h.objects)
                         ELSE Built(Unwrap(h.v), curve, h.objects))))))

\* A slip in From<&HalfEdge>: the vertices are taken in reverse.
PartialHalfEdge_from_reversed(half_edge) ==
    [surface |-> Some(HalfEdge_curve(half_edge).surface),
     curve |-> Some(Full(HalfEdge_curve(half_edge))),
     vertices |-> Some(<<Full(half_edge.vertices[2]),
                         Full(half_edge.vertices[1])>>),
     global_form |-> Some(Full(half_edge.global_form))]

\* impl From<&HalfEdge> for PartialHalfEdge
PartialHalfEdge_from(half_edge) ==
    [surface |-> Some(HalfEdge_curve(half_edge).surface),
     curve |-> Some(Full(HalfEdge_curve(half_edge))),
     vertices |-> Some(<<Full(half_edge.vertices[1]),
                         Full(half_edge.vertices[2])>>),
     global_form |-> Some(Full(half_edge.global_form))]

----------------------------------------------------------------------------
(* The building program: it assembles a partial global edge, then a partial
   half-edge, and builds half-edges from it. *)

\* The objects that exist before the program starts.
XY == Surface(1, "xy")
XZ == Surface(2, "xz")

ExistingCurve ==
    [path |-> Line(<<ZERO, ZERO>>, <<ONE, ZERO>>), surface |-> XY,
     global_form |-> 1]

ExistingGlobalVertex(t) ==
    [position |-> point_from_surface_coords(XY,
                    point_from_path_coords(ExistingCurve.path, t))]

ExistingVertex(t) ==
    [position |-> t,
     curve |-> ExistingCurve,
     surface_form |-> [position |->
                            point_from_path_coords(ExistingCurve.path, t),
                       surface |-> XY,
                       global_form |-> ExistingGlobalVertex(t)],
     global_form |-> ExistingGlobalVertex(t)]

ExistingObjects ==
    [surfaces |-> {XY, XZ},
     global_curves |-> {1, 2},
     curves |-> {ExistingCurve},
     global_vertices |-> {ExistingGlobalVertex(ZERO),
                          ExistingGlobalVertex(ONE)}]

\* The arguments the program passes.
SurfaceArgs == {None, Some(XY), Some(XZ)}

CurveArgs ==
    {None,
     Some(Full(ExistingCurve)),
     Some(Partial([path |-> Some(Line(<<ZERO, ZERO>>, <<ZERO, ONE>>)),
                   surface |-> None, global_form |-> None])),
     Some(Partial([path |-> Some(Line(<<ZERO, ZERO>>, <<ZERO, ONE>>)),
                   surface |-> Some(XZ), global_form |-> Some(2)]))}

PositionedVertex(t, point) ==
    [position |-> Some(t), curve |-> None,
     surface_form |-> Some(Partial([position |-> Some(point),
                                    surface |-> None, global_form |-> None])),
     global_form |-> None]

VerticesArgs ==
    {None,
     Some(<<Full(ExistingVertex(ZERO)), Full(ExistingVertex(ONE))>>),
     Some(<<Full(ExistingVertex(ONE)),
            Partial(PositionedVertex(TAU, <<ZERO, ZERO>>))>>),
     Some(<<Partial(PositionedVertex(ONE, <<ONE, ONE>>)),
            Partial(PositionedVertex(ZERO, <<ZERO, ONE>>))>>),
     Some(<<Partial([DefaultPartialVertex EXCEPT !.position = Some(ZERO)]),
            Partial([DefaultPartialVertex EXCEPT !.position = Some(ONE)])>>)}

GlobalFormArgs ==
    {None,
     Some(Full(GlobalEdge_new(2, <<ExistingGlobalVertex(ONE),
                                   ExistingGlobalVertex(ZERO)>>))),
     Some(Partial([curve |-> Some(2), vertices |-> None]))}

GlobalCurveArgs == {None, Some(1), Some(2)}

GlobalVerticesArgs ==
    {None,
     Some(<<ExistingGlobalVertex(ZERO), ExistingGlobalVertex(ONE)>>),
     Some(<<ExistingGlobalVertex(ONE), ExistingGlobalVertex(ZERO)>>)}

Radii == {r * ONE : r \in 1..MaxRadius}

PointsArgs == {<<<<ZERO, ZERO>>, <<ONE, ZERO>>>>,
               <<<<ONE, ONE>>, <<ZERO, ONE>>>>}

Call(op, arg) == [op |-> op, arg |-> arg]

BuilderIdle ==
    /\ pc = "global_edge"
    /\ ge = DefaultPartialGlobalEdge
    /\ ge_built = None
    /\ partial = DefaultPartialHalfEdge
    /\ call = Call("default", None)
    /\ builds = <<>>
    /\ objects = ExistingObjects

(* Global edge *)

GEWithCurve ==
    \E curve \in GlobalCurveArgs :
        /\ pc = "global_edge"
        /\ ge' = PartialGlobalEdge_with_curve(ge, curve)
        /\ call' = Call("global_edge.with_curve", curve)
        /\ UNCHANGED <<pc, ge_built, partial, builds, objects, ff_vars, tr_vars>>

GEWithVertices ==
    \E vertices \in GlobalVerticesArgs :
        /\ pc = "global_edge"
        /\ ge' = PartialGlobalEdge_with_vertices(ge, vertices)
        /\ call' = Call("global_edge.with_vertices", vertices)
        /\ UNCHANGED <<pc, ge_built, partial, builds, objects, ff_vars, tr_vars>>

GEFromCurveAndVertices ==
    \E vertices \in {<<ExistingVertex(ZERO), ExistingVertex(ONE)>>,
                     <<ExistingVertex(ONE), ExistingVertex(ZERO)>>} :
        /\ pc = "global_edge"
        /\ ge' = PartialGlobalEdge_from_curve_and_vertices(ge, ExistingCurve,
                                                           vertices)
        /\ call' = Call("global_edge.from_curve_and_vertices", Some(vertices))
        /\ UNCHANGED <<pc, ge_built, partial, builds, objects, ff_vars, tr_vars>>

\* build on a clone of the partial global edge
GEBuild ==
    /\ pc = "global_edge"
    /\ \E r \in {PartialGlobalEdge_build(ge, objects)} :
           /\ pc' = IF r.ok THEN pc ELSE "panicked"
           /\ ge_built' = IF r.ok THEN r.v ELSE ge_built
           /\ objects' = r.objects
    /\ call' = Call("global_edge.build", None)
    /\ UNCHANGED <<ge, partial, builds, ff_vars, tr_vars>>

GEFrom ==
    /\ pc = "global_edge"
    /\ IsSome(ge_built)
    /\ ge' = PartialGlobalEdge_from(Unwrap(ge_built))
    /\ call' = Call("global_edge.from", ge_built)
    /\ UNCHANGED <<pc, ge_built, partial, builds, objects, ff_vars, tr_vars>>

(* Half-edge *)

\* HalfEdge::partial().with_global_form(..): the program moves the global
\* edge it has assembled, partial or built, into the new partial half-edge,
\* or passes None.
StartHalfEdge ==
    \E global_form \in {None, Some(Partial(ge))}
                         \cup {Some(Full(e)) : e \in {ge_built[i] : i \in
                                                       1..Len(ge_built)}} :
        /\ pc = "global_edge"
        /\ pc' = "half_edge"
        /\ partial' = PartialHalfEdge_with_global_form(DefaultPartialHalfEdge,
                                                       global_form)
        /\ ge' = DefaultPartialGlobalEdge
        /\ ge_built' = None
        /\ call' = Call("with_global_form", global_form)
        /\ UNCHANGED <<builds, objects, ff_vars, tr_vars>>

WithSurface ==
    \E surface \in SurfaceArgs :
        /\ pc = "half_edge"
        /\ partial' = PartialHalfEdge_with_surface(partial, surface)
        /\ call' = Call("with_surface", surface)
        /\ UNCHANGED <<pc, ge, ge_built, builds, objects, ff_vars, tr_vars>>

WithCurve ==
    \E curve \in CurveArgs :
        /\ pc = "half_edge"
        /\ partial' = PartialHalfEdge_with_curve(partial, curve)
        /\ call' = Call("with_curve", curve)
        /\ UNCHANGED <<pc, ge, ge_built, builds, objects, ff_vars, tr_vars>>

WithVertices ==
    \E vertices \in VerticesArgs :
        /\ pc = "half_edge"
        /\ partial' = PartialHalfEdge_with_vertices(partial, vertices)
        /\ call' = Call("with_vertices", vertices)
        /\ UNCHANGED <<pc, ge, ge_built, builds, objects, ff_vars, tr_vars>>

WithGlobalForm ==
    \E global_form \in GlobalFormArgs :
        /\ pc = "half_edge"
        /\ partial' = PartialHalfEdge_with_global_form(partial, global_form)
        /\ call' = Call("with_global_form", global_form)
        /\ UNCHANGED <<pc, ge, ge_built, builds, objects, ff_vars, tr_vars>>

AsCircleFromRadius ==
    \E radius \in Radii :
        /\ pc = "half_edge"
        /\ partial' = PartialHalfEdge_as_circle_from_radius(partial, radius)
        /\ call' = Call("as_circle_from_radius", Some(radius))
        /\ UNCHANGED <<pc, ge, ge_built, builds, objects, ff_vars, tr_vars>>

AsLineSegment ==
    /\ pc = "half_edge"
    /\ \E r \in {PartialHalfEdge_as_line_segment(partial)} :
           /\ pc' = IF r.ok THEN pc ELSE "panicked"
           /\ partial' = IF r.ok THEN Unwrap(r.v) ELSE partial
    /\ call' = Call("as_line_segment", None)
    /\ UNCHANGED <<ge, ge_built, builds, objects, ff_vars, tr_vars>>

AsLineSegmentFromPoints ==
    \E points \in PointsArgs :
        /\ pc = "half_edge"
        /\ \E r \in {PartialHalfEdge_as_line_segment_from_points(partial,
                                                                  points)} :
               /\ pc' = IF r.ok THEN pc ELSE "panicked"
               /\ partial' = IF r.ok THEN Unwrap(r.v) ELSE partial
        /\ call' = Call("as_line_segment_from_points", Some(points))
        /\ UNCHANGED <<ge, ge_built, builds, objects, ff_vars, tr_vars>>

\* build on a clone of the partial half-edge
Build ==
    /\ pc \in {"half_edge", "built"}
    /\ Len(builds) < MaxBuilds
    /\ \E r \in {PartialHalfEdge_build(partial, objects)} :
           /\ pc' = IF r.ok THEN "built" ELSE "panicked"
           /\ builds' = IF r.ok
                        THEN Append(builds, [from |-> partial,
                                             curve |-> Unwrap(r.curve),
                                             half_edge |-> Unwrap(r.v)])
                        ELSE builds
           /\ objects' = r.objects
    /\ call' = Call("build", None)
    /\ UNCHANGED <<ge, ge_built, partial, ff_vars, tr_vars>>

\* PartialHalfEdge::from(&half_edge) of the half-edge built last
FromHalfEdge ==
    /\ pc = "built"
    /\ partial' = PartialHalfEdge_from(builds[Len(builds)].half_edge)
    /\ call' = Call("from", None)
    /\ UNCHANGED <<pc, ge, ge_built, builds, objects, ff_vars, tr_vars>>

BuilderNext ==
    \/ GEWithCurve
    \/ GEWithVertices
    \/ GEFromCurveAndVertices
    \/ GEBuild
    \/ GEFrom
    \/ StartHalfEdge
    \/ WithSurface
    \/ WithCurve
    \/ WithVertices
    \/ WithGlobalForm
    \/ AsCircleFromRadius
    \/ AsLineSegment
    \/ AsLineSegmentFromPoints
    \/ Build
    \/ FromHalfEdge

----------------------------------------------------------------------------
(* Transforms *)

\* The transforms applied: the identity and the rotation that takes the
\* x axis to y, y to z and z to x.
Transforms == {"identity", "rotate"}

transform_plane(transform, plane) ==
    IF transform = "identity" THEN plane
    ELSE IF plane = "xy" THEN "yz" ELSE IF plane = "yz" THEN "xz" ELSE "xy"

transform_point(transform, p) ==
    IF transform = "identity" THEN p ELSE <<p[3], p[1], p[2]>>

\* Handle<Surface>::transform: the transformed surface is a new object of
\* the store.
Surface_transform(surface, transform, objs) ==
    LET new == Surface(Cardinality(objs.surfaces) + 1,
                       transform_plane(transform, surface.plane))
    IN  Ok(new, [objs EXCEPT !.surfaces = @ \cup {new}])

\* Handle<GlobalCurve>::transform: a GlobalCurve has no geometry of its
\* own; the transformed one is a new object with a new identity.
GlobalCurve_transform(global_curve, transform, objs) ==
    Ok(NewGlobalCurve(objs), InsertGlobalCurve(objs))

\* Handle<GlobalVertex>::transform
GlobalVertex_transform(vertex, transform, objs) ==
    LET new == [position |-> transform_point(transform, vertex.position)]
    IN  Ok(new, InsertGlobalVertex(objs, new))

\* into_partial of the MaybePartial types
Curve_into_partial(m) ==
    IF IsPartial(m) THEN m.partial
    ELSE [path |-> Some(m.full.path), surface |-> Some(m.full.surface),
          global_form |-> Some(m.full.global_form)]

GlobalVertex_into_partial(m) ==
    IF IsPartial(m) THEN m.partial ELSE [position |-> Some(m.full.position)]

SurfaceVertex_into_partial(m) ==
    IF IsPartial(m) THEN m.partial
    ELSE [position |-> Some(m.full.position),
          surface |-> Some(m.full.surface),
          global_form |-> Some(Full(m.full.global_form))]

Vertex_into_partial(m) ==
    IF IsPartial(m) THEN m.partial
    ELSE [position |-> Some(m.full.position),
          curve |-> Some(Full(m.full.curve)),
          surface_form |-> Some(Full(m.full.surface_form)),
          global_form |-> Some(Full(m.full.global_form))]

GlobalEdge_into_partial(m) ==
    IF IsPartial(m) THEN m.partial ELSE PartialGlobalEdge_from(m.full)

\* Option<T>::map(transform): None stays None.
OptionTransform(option, objs, f(_, _)) ==
    IF option = None THEN Ok(None, objs)
    ELSE Let(f(Unwrap(option), objs),
             LAMBDA r : [r EXCEPT !.v = Some(@)])

\* PartialCurve::transform: the path is in surface coordinates and stays.
PartialCurve_transform(self, transform, objs) ==
    Let(OptionTransform(self.surface, objs,
            LAMBDA s, o : Surface_transform(s, transform, o)),
        LAMBDA surface :
    Let(OptionTransform(self.global_form, surface.objects,
            LAMBDA g, o : GlobalCurve_transform(g, transform, o)),
        LAMBDA global_form :
    Ok([path |-> self.path, surface |-> Unwrap(surface.v),
        global_form |-> Unwrap(global_form.v)], global_form.objects)))

PartialGlobalVertex_transform(self, transform) ==
    [position |-> IF self.position = None THEN None
                  ELSE Some(transform_point(transform, Unwrap(self.position)))]

\* PartialSurfaceVertex::transform: the position is in surface coordinates
\* and stays.
PartialSurfaceVertex_transform(self, transform, objs) ==
    Let(OptionTransform(self.surface, objs,
            LAMBDA s, o : Surface_transform(s, transform, o)),
        LAMBDA surface :
    Ok([position |-> self.position,
        surface |-> Unwrap(surface.v),
        global_form |->
            IF self.global_form = None THEN None
            ELSE Some(Partial(PartialGlobalVertex_transform(
                    GlobalVertex_into_partial(Unwrap(self.global_form)),
                    transform)))],
       surface.objects))

\* PartialVertex::transform: the position is in curve coordinates and
\* stays.
PartialVertex_transform(self, transform, objs) ==
    Let(OptionTransform(self.curve, objs,
            LAMBDA c, o : PartialCurve_transform(Curve_into_partial(c),
                                                 transform, o)),
        LAMBDA curve :
    Let(OptionTransform(self.surface_form, curve.objects,
            LAMBDA s, o : PartialSurfaceVertex_transform(
                            SurfaceVertex_into_partial(s), transform, o)),
        LAMBDA surface_form :
    Ok([position |-> self.position,
        curve |-> IF self.curve = None THEN None
                  ELSE Some(Partial(Unwrap(Unwrap(curve.v)))),
        surface_form |-> IF self.surface_form = None THEN None
                         ELSE Some(Partial(Unwrap(Unwrap(surface_form.v)))),
        global_form |->
            IF self.global_form = None THEN None
            ELSE Some(Partial(PartialGlobalVertex_transform(
                    GlobalVertex_into_partial(Unwrap(self.global_form)),
                    transform)))],
       surface_form.objects)))

\* impl TransformObject for PartialGlobalEdge
PartialGlobalEdge_transform(self, transform, objs) ==
    Let(OptionTransform(self.curve, objs,
            LAMBDA g, o : GlobalCurve_transform(g, transform, o)),
        LAMBDA curve :
    IF self.vertices = None
    THEN Ok([curve |-> Unwrap(curve.v), vertices |-> None], curve.objects)
    ELSE
    Let(GlobalVertex_transform(Unwrap(self.vertices)[1], transform,
                               curve.objects),
        LAMBDA a :
    Let(GlobalVertex_transform(Unwrap(self.vertices)[2], transform,
                               a.objects),
        LAMBDA b :
    Ok([curve |-> Unwrap(curve.v),
        vertices |-> Some(<<Unwrap(a.v), Unwrap(b.v)>>)], b.objects))))

\* The accessors of PartialHalfEdge: an absent field reads as the default
\* partial object.
PartialHalfEdge_curve(self) ==
    IF IsSome(self.curve) THEN Unwrap(self.curve)
    ELSE Partial(DefaultPartialCurve)

PartialHalfEdge_vertices(self) ==
    IF IsSome(self.vertices) THEN Unwrap(self.vertices)
    ELSE <<Partial(DefaultPartialVertex), Partial(DefaultPartialVertex)>>

PartialHalfEdge_global_form(self) ==
    IF IsSome(self.global_form) THEN Unwrap(self.global_form)
    ELSE Partial(DefaultPartialGlobalEdge)

\* A step of a transform reports a ValidationError when the store rejects
\* what it is to insert; `fail` names the step that does, if any.
Steps == {"none", "curve", "vertices", "global_form"}
Failing(step, fail, r) == IF step = fail THEN Panic(r.objects) ELSE r

\* A slip in the half-edge transform: the transformed global form keeps
\* the GlobalCurve its own transform made.
PartialHalfEdge_transform_unlinked(self, transform, fail, objs) ==
    Let(Failing("curve", fail,
            PartialCurve_transform(
                Curve_into_partial(PartialHalfEdge_curve(self)),
                transform, objs)),
        LAMBDA c :
    IF ~c.ok THEN Panic(c.objects)
    ELSE
    LET curve == Partial(Unwrap(c.v))
        repoint(vertex) == [vertex EXCEPT !.curve = Some(curve)]
    IN
    Let(Failing("vertices", fail,
            PartialVertex_transform(
                Vertex_into_partial(PartialHalfEdge_vertices(self)[1]),
                transform, c.objects)),
        LAMBDA a :
    IF ~a.ok THEN Panic(a.objects)
    ELSE
    Let(PartialVertex_transform(
            Vertex_into_partial(PartialHalfEdge_vertices(self)[2]),
            transform, a.objects),
        LAMBDA b :
    Let(Failing("global_form", fail,
            PartialGlobalEdge_transform(
                GlobalEdge_into_partial(PartialHalfEdge_global_form(self)),
                transform, b.objects)),
        LAMBDA g :
    IF ~g.ok THEN Panic(g.objects)
    ELSE
    Ok(PartialHalfEdge_with_global_form(
        PartialHalfEdge_with_vertices(
            PartialHalfEdge_with_curve(DefaultPartialHalfEdge, Some(curve)),
            Some(<<Partial(repoint(Unwrap(a.v))),
                   Partial(repoint(Unwrap(b.v)))>>)),
        Some(Partial(Unwrap(g.v)))), g.objects)))))

\* impl TransformObject for PartialHalfEdge
PartialHalfEdge_transform(self, transform, fail, objs) ==
    Let(Failing("curve", fail,
            PartialCurve_transform(
                Curve_into_partial(PartialHalfEdge_curve(self)),
                transform, objs)),
        LAMBDA c :
    IF ~c.ok THEN Panic(c.objects)
    ELSE
    LET curve == Partial(Unwrap(c.v))
        repoint(vertex) == [vertex EXCEPT !.curve = Some(curve)]
    IN
    Let(Failing("vertices", fail,
            PartialVertex_transform(
                Vertex_into_partial(PartialHalfEdge_vertices(self)[1]),
                transform, c.objects)),
        LAMBDA a :
    IF ~a.ok THEN Panic(a.objects)
    ELSE
    Let(PartialVertex_transform(
            Vertex_into_partial(PartialHalfEdge_vertices(self)[2]),
            transform, a.objects),
        LAMBDA b :
    Let(Failing("global_form", fail,
            PartialGlobalEdge_transform(
                GlobalEdge_into_partial(PartialHalfEdge_global_form(self)),
                transform, b.objects)),
        LAMBDA g :
    IF ~g.ok THEN Panic(g.objects)
    ELSE
    LET global_form ==
            IF IsSome(Curve_global_form(curve))
            THEN [Unwrap(g.v) EXCEPT !.curve = Curve_global_form(curve)]
            ELSE Unwrap(g.v)
    IN
    Ok(PartialHalfEdge_with_global_form(
        PartialHalfEdge_with_vertices(
            PartialHalfEdge_with_curve(DefaultPartialHalfEdge, Some(curve)),
            Some(<<Partial(repoint(Unwrap(a.v))),
                   Partial(repoint(Unwrap(b.v)))>>)),
        Some(Partial(global_form))), g.objects)))))

----------------------------------------------------------------------------
(* Faces *)

\* A cycle is on a surface; its half-edges are kept by name together with
\* the transforms they have been through.
Cycle(surface, name) == [surface |-> surface, half_edges |-> <<name>>]

\* Cycle::to_partial
Cycle_to_partial(cycle) ==
    [surface |-> Some(cycle.surface), half_edges |-> cycle.half_edges]

\* PartialCycle::transform: the half-edges are transformed; the surface is
\* for the caller to supply.
PartialCycle_transform(self, transform) ==
    [self EXCEPT !.half_edges = Append(@, transform)]

PartialCycle_with_surface(self, surface) ==
    IF IsSome(surface) THEN [self EXCEPT !.surface = surface] ELSE self

PartialCycle_build(self) ==
    [surface |-> Unwrap(self.surface), half_edges |-> self.half_edges]

DefaultColor == "red"

\* Face::from_exterior, ::with_interiors and ::with_color
Face_from_exterior(exterior) ==
    [surface |-> exterior.surface, exterior |-> exterior, interiors |-> <<>>,
     color |-> DefaultColor]
Face_with_interiors(self, interiors) ==
    [self EXCEPT !.interiors = @ \o interiors]
Face_with_color(self, color) == [self EXCEPT !.color = color]

\* The cycle a face transform builds from one of the face's cycles.
transform_cycle(cycle, transform, surface) ==
    PartialCycle_build(
        PartialCycle_with_surface(
            PartialCycle_transform(Cycle_to_partial(cycle), transform),
            Some(surface)))

\* A slip in the face transform: every interior cycle is built on a
\* transform of the surface of its own.
Face_transform_own_surfaces(self, transform, objs) ==
    Let(Surface_transform(self.surface, transform, objs), LAMBDA s :
        LET surface == Unwrap(s.v)
            exterior == transform_cycle(self.exterior, transform, surface)
            own(i) == Surface(Cardinality(s.objects.surfaces) + i,
                              transform_plane(transform, self.surface.plane))
            interiors == [i \in 1..Len(self.interiors) |->
                            transform_cycle(self.interiors[i], transform,
                                            own(i))]
            color == self.color
        IN  Ok(Face_with_color(
                Face_with_interiors(Face_from_exterior(exterior), interiors),
                color),
               [s.objects EXCEPT !.surfaces =
                    @ \cup {own(i) : i \in 1..Len(self.interiors)}]))

\* impl TransformObject for Face
Face_transform(self, transform, objs) ==
    Let(Surface_transform(self.surface, transform, objs), LAMBDA s :
        LET surface == Unwrap(s.v)
            exterior == transform_cycle(self.exterior, transform, surface)
            interiors == [i \in 1..Len(self.interiors) |->
                            transform_cycle(self.interiors[i], transform,
                                            surface)]
            color == self.color
        IN  Ok(Face_with_color(
                Face_with_interiors(Face_from_exterior(exterior), interiors),
                color),
               s.objects))

----------------------------------------------------------------------------
(* The transforming program: it transforms one partial half-edge or one
   face. *)

HalfEdgeInputs ==
    {[surface |-> s, curve |-> c, vertices |-> v, global_form |-> g] :
        <<s, c, v, g>> \in
            SurfaceArgs \X CurveArgs \X VerticesArgs \X GlobalFormArgs}

RECURSIVE SeqsUpTo(_, _)
SeqsUpTo(S, n) ==
    IF n = 0 THEN {<<>>}
    ELSE SeqsUpTo(S, n - 1)
            \cup {Append(q, x) : <<q, x>> \in SeqsUpTo(S, n - 1) \X S}

FaceInputs ==
    {[surface |-> s,
      exterior |-> Cycle(s, "outer"),
      interiors |-> [i \in 1..Len(names) |-> Cycle(s, names[i])],
      color |-> color] :
        <<s, names, color>> \in
            {XY, XZ} \X SeqsUpTo({"hole", "slot"}, MaxInteriors)
                \X {DefaultColor, "blue"}}

TransformIdle ==
    /\ tr_kind = "none"
    /\ tr_in = None
    /\ tr_transform = "identity"
    /\ tr_fail = "none"
    /\ tr_out = None
    /\ tr_objects = ExistingObjects

TransformInit ==
    /\ \/ tr_kind = "half_edge" /\ tr_in \in HalfEdgeInputs /\ tr_fail \in Steps
       \/ tr_kind = "face" /\ tr_in \in FaceInputs /\ tr_fail = "none"
    /\ tr_transform \in Transforms
    /\ tr_out = None
    /\ tr_objects = ExistingObjects

TransformHalfEdge ==
    /\ tr_kind = "half_edge"
    /\ tr_out = None
    /\ \E r \in {PartialHalfEdge_transform(tr_in, tr_transform, tr_fail,
                                           tr_objects)} :
        /\ tr_out' = Some([ok |-> r.ok, v |-> r.v])
        /\ tr_objects' = r.objects
    /\ UNCHANGED <<tr_kind, tr_in, tr_transform, tr_fail, ff_vars,
                   builder_vars>>

TransformFace ==
    /\ tr_kind = "face"
    /\ tr_out = None
    /\ \E r \in {Face_transform(tr_in, tr_transform, tr_objects)} :
        /\ tr_out' = Some([ok |-> r.ok, v |-> r.v])
        /\ tr_objects' = r.objects
    /\ UNCHANGED <<tr_kind, tr_in, tr_transform, tr_fail, ff_vars,
                   builder_vars>>

TransformNext ==
    \/ TransformHalfEdge
    \/ TransformFace

----------------------------------------------------------------------------
(* Face/face intersection *)

Rect(u0, u1, v0, v1) == [u0 |-> u0, u1 |-> u1, v0 |-> v0, v1 |-> v1]

Coords == {(c - 1) * ONE : c \in 0..CoordSpan}

Rects == {Rect(u0, u1, v0, v1) : <<u0, u1, v0, v1>> \in
            {q \in Coords \X Coords \X Coords \X Coords :
                q[1] < q[2] /\ q[3] < q[4]}}

\* A hole lies strictly inside the exterior.
Holes(ext) == {h \in Rects : /\ ext.u0 < h.u0 /\ h.u1 < ext.u1
                             /\ ext.v0 < h.v0 /\ h.v1 < ext.v1}

\* The faces handed to compute: one surface per plane, as interned by the
\* object store, an axis-aligned exterior and at most one interior cycle.
FFSurface(plane) == Surface(IF plane = "xy" THEN 1
                            ELSE IF plane = "xz" THEN 2 ELSE 3, plane)

FFFaces == {[surface |-> FFSurface(p), exterior |-> e, interiors |-> i] :
              <<p, e, i>> \in
                {q \in Planes \X Rects \X ({<<>>} \cup {<<h>> : h \in Rects}) :
                    q[3] = <<>> \/ q[3][1] \in Holes(q[2])}}

\* The axis two non-parallel coordinate planes share.
SharedAxis(pa, pb) ==
    CHOOSE k \in {"x", "y", "z"} :
        /\ k \in {PlaneAxes(pa)[1], PlaneAxes(pa)[2]}
        /\ k \in {PlaneAxes(pb)[1], PlaneAxes(pb)[2]}

\* The local image, on `surface`, of the global line along `axis`.
LocalLine(surface, axis) ==
    IF PlaneAxes(surface.plane)[1] = axis
    THEN Line(<<ZERO, ZERO>>, <<ONE, ZERO>>)
    ELSE Line(<<ZERO, ZERO>>, <<ZERO, ONE>>)

\* SurfaceSurfaceIntersection::compute: None for parallel planes, otherwise
\* one local curve per input surface, both images of one new GlobalCurve.
SurfaceSurfaceIntersection(surfaces, global_curve) ==
    IF surfaces[1].plane = surfaces[2].plane
    THEN None
    ELSE LET axis == SharedAxis(surfaces[1].plane, surfaces[2].plane)
         IN  Some([intersection_curves |->
                [i \in 1..2 |-> [surface |-> surfaces[i],
                                 path |-> LocalLine(surfaces[i], axis),
                                 global_form |-> global_curve]]])

\* The closed interval a rectangle cuts out of a local axis line, if any.
RectInterval(curve, r) ==
    IF curve.path.b[2] = 0
    THEN (IF r.v0 <= 0 /\ 0 <= r.v1 THEN <<<<r.u0, r.u1>>>> ELSE <<>>)
    ELSE (IF r.u0 <= 0 /\ 0 <= r.u1 THEN <<<<r.v0, r.v1>>>> ELSE <<>>)

\* Does the line run through the open interior of the rectangle?
RectCrossed(curve, r) ==
    IF curve.path.b[2] = 0 THEN r.v0 < 0 /\ 0 < r.v1
                           ELSE r.u0 < 0 /\ 0 < r.u1

\* CurveFaceIntersection::compute: the ordered, disjoint closed intervals of
\* curve coordinates in which the curve lies inside the face.
CurveFaceIntersection(curve, face) ==
    LET ext == RectInterval(curve, face.exterior)
    IN  IF ext = <<>> THEN <<>>
        ELSE IF face.interiors # <<>> /\ RectCrossed(curve, face.interiors[1])
        THEN LET h == RectInterval(curve, face.interiors[1])[1]
             IN  <<<<ext[1][1], h[1]>>, <<h[2], ext[1][2]>>>>
        ELSE ext

\* CurveFaceIntersection::merge: the overlaps of two ordered interval lists.
RECURSIVE merge(_, _)
merge(a, b) ==
    IF a = <<>> \/ b = <<>> THEN <<>>
    ELSE LET overlap_start == Max(a[1][1], b[1][1])
             overlap_end == Min(a[1][2], b[1][2])
             rest == IF a[1][2] <= b[1][2] THEN merge(Tail(a), b)
                                           ELSE merge(a, Tail(b))
         IN  IF overlap_start <= overlap_end
             THEN <<<<overlap_start, overlap_end>>>> \o rest
             ELSE rest

\* The identity the store gives the GlobalCurve of a new intersection.
FFGlobalCurve == 1

\* A slip in compute: the emptiness of one face's intervals is tested
\* instead of the emptiness of the merged intervals.
FaceFaceIntersection_unmerged(faces) ==
    LET surfaces == [i \in 1..2 |-> faces[i].surface]
        ssi == SurfaceSurfaceIntersection(surfaces, FFGlobalCurve)
    IN  IF ssi = None THEN None
        ELSE LET intersection_curves == Unwrap(ssi).intersection_curves
                 a == CurveFaceIntersection(intersection_curves[1], faces[1])
                 b == CurveFaceIntersection(intersection_curves[2], faces[2])
             IN  IF a = <<>> THEN None
                 ELSE Some([intersection_curves |-> intersection_curves,
                            intersection_intervals |-> merge(a, b)])

\* FaceFaceIntersection::compute
FaceFaceIntersection(faces) ==
    LET surfaces == [i \in 1..2 |-> faces[i].surface]
        ssi == SurfaceSurfaceIntersection(surfaces, FFGlobalCurve)
    IN  IF ssi = None THEN None
        ELSE LET intersection_curves == Unwrap(ssi).intersection_curves
                 curve_face_intersections ==
                    [i \in 1..2 |->
                        CurveFaceIntersection(intersection_curves[i], faces[i])]
                 intersection_intervals ==
                    merge(curve_face_intersections[1],
                          curve_face_intersections[2])
             IN  IF intersection_intervals = <<>> THEN None
                 ELSE Some([intersection_curves |-> intersection_curves,
                            intersection_intervals |-> intersection_intervals])

FFIdle ==
    /\ ff_faces = None
    /\ ff_called = FALSE
    /\ ff_result = None

FFInit ==
    /\ ff_faces \in FFFaces \X FFFaces
    /\ ff_called = FALSE
    /\ ff_result = None

FFCompute ==
    /\ ~ff_called
    /\ ff_called' = TRUE
    /\ ff_result' = FaceFaceIntersection(ff_faces)
    /\ UNCHANGED <<ff_faces, builder_vars, tr_vars>>

FFNext == FFCompute

\* Each program runs on its own; the state of the other two stays idle.
InitFF == FFInit /\ BuilderIdle /\ TransformIdle
InitBuilder == FFIdle /\ BuilderIdle /\ TransformIdle
InitTransform == FFIdle /\ BuilderIdle /\ TransformInit

SpecFF == InitFF /\ [][FFNext]_vars

SpecBuilder == InitBuilder /\ [][BuilderNext]_vars

SpecTransform == InitTransform /\ [][TransformNext]_vars

----------------------------------------------------------------------------
(* C1 *)

\* The per-face interval lists of the last call, when its surfaces cross.
FFCurves == Unwrap(SurfaceSurfaceIntersection(
                <<ff_faces[1].surface, ff_faces[2].surface>>,
                FFGlobalCurve)).intersection_curves
FFMerged == merge(CurveFaceIntersection(FFCurves[1], ff_faces[1]),
                  CurveFaceIntersection(FFCurves[2], ff_faces[2]))
FFParallel == ff_faces[1].surface.plane = ff_faces[2].surface.plane

\* C1: compute returns None exactly when the two surfaces do not intersect
\* or the merge of the two per-face interval sets is empty; otherwise it
\* returns the two surface-intersection curves, the first on the first
\* face's surface and the second on the second's, with exactly the merged
\* interval set.
C1_ComputeResult ==
    ff_called =>
        /\ ff_result = None <=> (FFParallel \/ FFMerged = <<>>)
        /\ ff_result # None =>
            /\ Unwrap(ff_result).intersection_curves = FFCurves
            /\ \A i \in 1..2 :
                Unwrap(ff_result).intersection_curves[i].surface
                    = ff_faces[i].surface
            /\ Unwrap(ff_result).intersection_intervals = FFMerged

\* The surfaces cross and the first face meets the curve, but the bounded
\* regions do not overlap on it: compute answered None.
C1_Witness ==
    /\ ff_called
    /\ ~FFParallel
    /\ CurveFaceIntersection(FFCurves[1], ff_faces[1]) # <<>>
    /\ FFMerged = <<>>
    /\ ff_result = None

----------------------------------------------------------------------------
(* C2 *)

HalfEdgeFields == {"surface", "curve", "vertices", "global_form"}
GlobalEdgeFields == {"curve", "vertices"}

\* What a setter of `field` may do between `old` and `new` when called
\* with `arg`.
SetterEffect(old, new, fields, field, arg) ==
    IF arg = None THEN new = old
    ELSE /\ new[field] = arg
         /\ \A f \in fields \ {field} : new[f] = old[f]

HalfEdgeSetter(field) ==
    call'.op = "with_" \o field =>
        SetterEffect(partial, partial', HalfEdgeFields, field, call'.arg)

GlobalEdgeSetter(field) ==
    call'.op = "global_edge.with_" \o field =>
        SetterEffect(ge, ge', GlobalEdgeFields, field, call'.arg)

\* C2: whatever was set before, each setter of PartialHalfEdge and of
\* PartialGlobalEdge leaves the whole partial unchanged when called with
\* None, and when called with Some(v) sets its one field to v and leaves
\* every other field unchanged.
C2_SettersFrame ==
    [][/\ \A field \in HalfEdgeFields : HalfEdgeSetter(field)
       /\ \A field \in GlobalEdgeFields : GlobalEdgeSetter(field)]_vars

\* with_curve(None) has just returned on a partial that earlier setters
\* had filled completely.
C2_Witness ==
    /\ call = Call("with_curve", None)
    /\ \A f \in HalfEdgeFields : IsSome(partial[f])

----------------------------------------------------------------------------
(* C3 *)

\* The global form of a built half-edge is the one derived from the
\* finalized curve and the finalized vertices.
DerivedGlobalForm(build) ==
    LET h == build.half_edge
    IN  /\ h.global_form.curve = build.curve.global_form
        /\ {h.global_form.vertices[1], h.global_form.vertices[2]}
            = {h.vertices[1].global_form, h.vertices[2].global_form}
        /\ ~GlobalVertex_lt(h.global_form.vertices[2],
                            h.global_form.vertices[1])

NoGlobalFormGiven(build) == build.from.global_form = None

\* C3: a half-edge built from a partial with no global form gets the
\* GlobalEdge of the finalized curve's GlobalCurve and the finalized
\* vertices' GlobalVertices, so two half-edges built this way whose
\* finalized curve and vertices are the same have equal global forms.
C3_DerivedGlobalForm ==
    /\ \A i \in 1..Len(builds) :
        NoGlobalFormGiven(builds[i]) => DerivedGlobalForm(builds[i])
    /\ \A i, j \in 1..Len(builds) :
        /\ NoGlobalFormGiven(builds[i]) /\ NoGlobalFormGiven(builds[j])
        /\ builds[i].curve = builds[j].curve
        /\ builds[i].half_edge.vertices = builds[j].half_edge.vertices
        => builds[i].half_edge.global_form = builds[j].half_edge.global_form

\* Two half-edges were built without a global form from one curve and
\* from vertices that were still partial, in the order that is not the
\* canonical one.
C3_Witness ==
    /\ Len(builds) = 2
    /\ NoGlobalFormGiven(builds[1]) /\ NoGlobalFormGiven(builds[2])
    /\ builds[1].curve = builds[2].curve
    /\ \A i \in 1..2 : IsPartial(Unwrap(builds[1].from.vertices)[i])
    /\ GlobalVertex_lt(builds[1].half_edge.vertices[2].global_form,
                       builds[1].half_edge.vertices[1].global_form)

----------------------------------------------------------------------------
(* C4 *)

\* C4: build right after PartialHalfEdge::from(&h) returns a half-edge
\* equal to h.
C4_RoundTrip ==
    [][(call.op = "from" /\ call'.op = "build") =>
        /\ pc' = "built"
        /\ Len(builds') = Len(builds) + 1
        /\ builds'[Len(builds')].half_edge = builds[Len(builds)].half_edge]_vars

\* A half-edge whose vertices were finalized by the first build, on a curve
\* the first build finalized, has been built again from its partial form.
C4_Witness ==
    /\ Len(builds) = 2
    /\ call.op = "build"
    /\ IsPartial(Unwrap(builds[1].from.curve))
    /\ \A i \in 1..2 : IsPartial(Unwrap(builds[1].from.vertices)[i])
    /\ builds[2].from.vertices
        = Some(<<Full(builds[1].half_edge.vertices[1]),
                 Full(builds[1].half_edge.vertices[2])>>)
    /\ builds[2].from.global_form = Some(Full(builds[1].half_edge.global_form))
    /\ builds[2].half_edge = builds[1].half_edge

----------------------------------------------------------------------------
(* C5 *)

Swapped(global_edge) ==
    [global_edge EXCEPT !.vertices =
        Some(<<Unwrap(@)[2], Unwrap(@)[1]>>)]

\* C5: the GlobalEdge built from a curve and the vertices (v0, v1) equals
\* the one built from the same curve and (v1, v0), and its vertices are in
\* the canonical order.
C5_OrientationInvariant ==
    (call.op = "global_edge.build" /\ pc # "panicked") =>
        /\ ge_built = PartialGlobalEdge_build(Swapped(ge), objects).v
        /\ ~GlobalVertex_lt(Unwrap(ge_built).vertices[2],
                            Unwrap(ge_built).vertices[1])

\* A global edge has been built from two different vertices given in the
\* order that is not the canonical one.
C5_Witness ==
    /\ call.op = "global_edge.build"
    /\ IsSome(ge_built)
    /\ Unwrap(ge.vertices) # Unwrap(ge_built).vertices
    /\ Unwrap(ge_built).vertices = <<Unwrap(ge.vertices)[2],
                                     Unwrap(ge.vertices)[1]>>

----------------------------------------------------------------------------
(* C8 *)

\* C8: after as_circle_from_radius(r) the partial has a circle curve of
\* radius r and two vertices at the curve coordinates 0 and TAU, in that
\* order, both on that curve and both with one and the same GlobalVertex,
\* whatever curve and vertices it had before.
C8_Circle ==
    [][call'.op = "as_circle_from_radius" =>
        /\ IsSome(partial'.curve) /\ IsPartial(Unwrap(partial'.curve))
        /\ Unwrap(partial'.curve).partial.path
            = Some(Circle(Unwrap(call'.arg)))
        /\ IsSome(partial'.vertices) /\ Len(Unwrap(partial'.vertices)) = 2
        /\ \A i \in 1..2 : IsPartial(Unwrap(partial'.vertices)[i])
        /\ Unwrap(partial'.vertices)[1].partial.position = Some(ZERO)
        /\ Unwrap(partial'.vertices)[2].partial.position = Some(TAU)
        /\ \A i \in 1..2 :
            Unwrap(partial'.vertices)[i].partial.curve = partial'.curve
        /\ IsSome(Unwrap(partial'.vertices)[1].partial.global_form)
        /\ Unwrap(partial'.vertices)[1].partial.global_form
            = Unwrap(partial'.vertices)[2].partial.global_form]_vars

\* as_circle_from_radius has returned on a partial that has a surface and
\* a global form.
C8_Witness ==
    /\ call.op = "as_circle_from_radius"
    /\ IsSome(partial.surface)
    /\ IsSome(partial.global_form)
    /\ Unwrap(partial.vertices)[2].partial.position = Some(TAU)

----------------------------------------------------------------------------
(* C9 *)

LineSegmentReturned ==
    /\ call.op \in {"as_line_segment", "as_line_segment_from_points"}
    /\ pc # "panicked"

\* MaybePartial<Vertex>::position and ::curve
Vertex_position(m) == IF IsFull(m) THEN Some(m.full.position)
                      ELSE m.partial.position
Vertex_curve(m) == IF IsFull(m) THEN Some(Full(m.full.curve))
                   ELSE m.partial.curve

\* C9 as stated: after as_line_segment every vertex, partial or full, is
\* at 0 (the first) or 1 (the second) on the new curve.
C9_AllVerticesRederived ==
    LineSegmentReturned =>
        /\ Vertex_position(Unwrap(partial.vertices)[1]) = Some(ZERO)
        /\ Vertex_position(Unwrap(partial.vertices)[2]) = Some(ONE)
        /\ \A i \in 1..2 :
            Vertex_curve(Unwrap(partial.vertices)[i]) = partial.curve

\* C9, amended: after as_line_segment every vertex that was passed in
\* partial is at 0 (the first) or 1 (the second) on the new curve; a vertex
\* that was passed in full is left as it was.
C9_PartialVerticesRederived ==
    [][(LineSegmentReturned)' =>
        /\ \A i \in 1..2 :
            IsPartial(Unwrap(partial'.vertices)[i]) =>
                /\ Unwrap(partial'.vertices)[i].partial.position
                    = Some(IF i = 1 THEN ZERO ELSE ONE)
                /\ Unwrap(partial'.vertices)[i].partial.curve = partial'.curve
        /\ call'.op = "as_line_segment" =>
            \A i \in 1..2 :
                /\ IsFull(Unwrap(partial.vertices)[i])
                    <=> IsFull(Unwrap(partial'.vertices)[i])
                /\ IsFull(Unwrap(partial.vertices)[i]) =>
                    Unwrap(partial'.vertices)[i] = Unwrap(partial.vertices)[i]
       ]_vars

\* as_line_segment has returned on a full first vertex, which kept its
\* coordinate 1, and a partial second vertex, which was moved to 1 on the
\* new curve.
C9_Witness ==
    /\ call.op = "as_line_segment"
    /\ pc = "half_edge"
    /\ IsFull(Unwrap(partial.vertices)[1])
    /\ Unwrap(partial.vertices)[1].full.position = ONE
    /\ IsPartial(Unwrap(partial.vertices)[2])
    /\ Unwrap(partial.vertices)[2].partial.position = Some(ONE)
    /\ Unwrap(partial.vertices)[2].partial.curve = partial.curve

----------------------------------------------------------------------------
(* C10 *)

\* C10: the line curve as_line_segment makes has the GlobalCurve of the
\* half-edge's existing curve when that has one, otherwise the curve of the
\* half-edge's existing global form when that has one, and none only when
\* both are absent.
C10_GlobalCurveSource ==
    [][(LineSegmentReturned)' =>
        LET of_curve == IF partial.curve = None THEN None
                        ELSE Curve_global_form(Unwrap(partial.curve))
            of_global_form == IF partial.global_form = None THEN None
                              ELSE GlobalEdge_curve(Unwrap(partial.global_form))
            made == Unwrap(partial'.curve).partial.global_form
        IN  /\ IsSome(of_curve) => made = of_curve
            /\ (of_curve = None /\ IsSome(of_global_form))
                => made = of_global_form
            /\ made = None <=> (of_curve = None /\ of_global_form = None)
       ]_vars

\* as_line_segment has returned on a half-edge whose global form is on
\* another GlobalCurve than the one the new curve has got: that one came
\* from the curve the half-edge had.
C10_Witness ==
    /\ LineSegmentReturned
    /\ IsSome(partial.global_form)
    /\ IsSome(GlobalEdge_curve(Unwrap(partial.global_form)))
    /\ IsSome(Unwrap(partial.curve).partial.global_form)
    /\ Unwrap(partial.curve).partial.global_form
        # GlobalEdge_curve(Unwrap(partial.global_form))

----------------------------------------------------------------------------
(* C6 *)

\* The face transform has returned.
FaceTransformed == tr_kind = "face" /\ IsSome(tr_out)

\* The surfaces the transforming program has added to the store.
NewSurfaces == tr_objects.surfaces \ ExistingObjects.surfaces

\* C6: transforming a Face transforms its surface exactly once: one new
\* Surface is in the store, it is the transform of the face's surface, and
\* the exterior cycle and every interior cycle of the resulting Face are on
\* that one Surface; the result has as many interior cycles as the input
\* and the same color.
C6_OneSharedSurface ==
    FaceTransformed =>
        LET out == Unwrap(Unwrap(tr_out).v)
        IN  /\ Cardinality(NewSurfaces) = 1
            /\ \A s \in NewSurfaces :
                /\ s.plane = transform_plane(tr_transform, tr_in.surface.plane)
                /\ out.surface = s
                /\ out.exterior.surface = s
                /\ \A i \in 1..Len(out.interiors) :
                        out.interiors[i].surface = s
            /\ Len(out.interiors) = Len(tr_in.interiors)
            /\ out.color = tr_in.color

\* A face with two interior cycles and a color of its own has been rotated.
C6_Witness ==
    /\ FaceTransformed
    /\ tr_transform = "rotate"
    /\ Len(tr_in.interiors) = 2
    /\ Len(Unwrap(Unwrap(tr_out).v).interiors) = 2
    /\ tr_in.color # DefaultColor

----------------------------------------------------------------------------
(* C7 *)

\* PartialHalfEdge::transform has returned Ok.
HalfEdgeTransformed ==
    tr_kind = "half_edge" /\ IsSome(tr_out) /\ Unwrap(tr_out).ok

\* C7: when PartialHalfEdge::transform succeeds, both vertices of the result
\* have the result's own curve as their curve, and whenever that curve
\* carries a GlobalCurve the result's global form has exactly that
\* GlobalCurve.
C7_OneTransformedCurve ==
    HalfEdgeTransformed =>
        LET out == Unwrap(Unwrap(tr_out).v)
        IN  /\ IsSome(out.curve)
            /\ IsSome(out.vertices)
            /\ IsSome(out.global_form)
            /\ \A i \in 1..2 :
                /\ IsPartial(Unwrap(out.vertices)[i])
                /\ Unwrap(out.vertices)[i].partial.curve = out.curve
            /\ IsSome(Curve_global_form(Unwrap(out.curve)))
                => GlobalEdge_curve(Unwrap(out.global_form))
                    = Curve_global_form(Unwrap(out.curve))

\* A half-edge whose curve carries a GlobalCurve, whose vertices are on a
\* curve and whose global form has a GlobalCurve of its own has been
\* rotated, and the transformed curve carries a new GlobalCurve.
C7_Witness ==
    /\ HalfEdgeTransformed
    /\ tr_transform = "rotate"
    /\ IsSome(tr_in.curve)
    /\ IsSome(Curve_global_form(Unwrap(tr_in.curve)))
    /\ IsSome(tr_in.vertices)
    /\ IsFull(Unwrap(tr_in.vertices)[1])
    /\ IsSome(tr_in.global_form)
    /\ IsSome(GlobalEdge_curve(Unwrap(tr_in.global_form)))
    /\ LET made == Curve_global_form(Unwrap(Unwrap(Unwrap(tr_out).v).curve))
       IN  /\ IsSome(made)
           /\ Unwrap(made) \notin ExistingObjects.global_curves

----------------------------------------------------------------------------
(* C11 *)

\* C11: build on a partial half-edge whose curve is absent or whose
\* vertices are absent aborts without producing a HalfEdge, and the object
\* store holds exactly the same objects after the failed build as before.
C11_FailedBuildInsertsNothing ==
    [][(/\ call'.op = "build"
        /\ partial.curve = None \/ partial.vertices = None)
        => /\ pc' = "panicked"
           /\ builds' = builds
           /\ objects' = objects
      ]_vars

====
